---- MODULE Spec2Model ----
(***************************************************************************)
(* pareto-ai-tools: the three workspace-bounded commands cd-vs-local,      *)
(* mv-vs-local and rm-vs-local (src/bin/*.js), each a one-shot process.    *)
(*                                                                         *)
(* Paths are JavaScript strings and are modelled as TLA+ strings (TLC      *)
(* treats a string as a sequence of characters: Len, SubSeq and \o work on *)
(* them).  The filesystem is a function from the absolute path of every    *)
(* existing entry to its inode: a directory, a regular file with a content *)
(* or a symbolic link with a target.                                       *)
(***************************************************************************)
EXTENDS Naturals, Sequences, FiniteSets, TLC

VARIABLES
    cmd,            \* which command runs: "cd", "mv", "rm" ("locate": the locator alone)
    argv,           \* process.argv.slice(2): a sequence of strings
    cwd,            \* process.cwd()
    fs,             \* the filesystem
    fs0,            \* the filesystem before the run (history)
    pc,             \* the position of main()
    exitCode,       \* the process exit code; NotExited while main() runs
    stdout,         \* the lines written with console.log
    stderr,         \* the lines written with console.error
    workspaceRoot,  \* const workspaceRoot of main()
    idx,            \* rm: position of the removal loop in resolvedPaths
    removedCount,   \* rm: let removedCount
    attempted,      \* rm: the targets whose try block was entered (history)
    renamed,        \* mv: fs.renameSync returned (history)
    threw           \* an exception left main() uncaught (history)

vars == <<cmd, argv, cwd, fs, fs0, pc, exitCode, stdout, stderr, workspaceRoot,
          idx, removedCount, attempted, renamed, threw>>

----------------------------------------------------------------------------
(* Strings *)

Char(s, i) == SubSeq(s, i, i)

startsWith(s, p) == Len(s) >= Len(p) /\ SubSeq(s, 1, Len(p)) = p

endsWith(s, p) == Len(s) >= Len(p) /\ SubSeq(s, Len(s) - Len(p) + 1, Len(s)) = p

sep == "/"

\* The characters of the model's names in ASCII (strcmp) order.
Alphabet == "-./CDGHIKORW_=acdefghijklnoprstuvwxy"

CharRank(c) == CHOOSE i \in 1..Len(Alphabet) : Char(Alphabet, i) = c

RECURSIVE StrLess(_, _)
StrLess(a, b) ==
    IF a = "" THEN b # ""
    ELSE IF b = "" THEN FALSE
    ELSE IF Char(a, 1) = Char(b, 1) THEN StrLess(Tail(a), Tail(b))
    ELSE CharRank(Char(a, 1)) < CharRank(Char(b, 1))

\* The elements of a finite set of strings, in ascending order.
RECURSIVE SortedSeq(_)
SortedSeq(S) ==
    IF S = {} THEN <<>>
    ELSE LET m == CHOOSE x \in S : \A y \in S : y = x \/ StrLess(x, y)
         IN <<m>> \o SortedSeq(S \ {m})

----------------------------------------------------------------------------
(* Node's path module (posix) *)

\* The non-empty segments of s between separators.
RECURSIVE Scan(_, _, _, _)
Scan(s, i, cur, acc) ==
    IF i > Len(s) THEN (IF cur = "" THEN acc ELSE Append(acc, cur))
    ELSE IF Char(s, i) = sep
         THEN Scan(s, i + 1, "", IF cur = "" THEN acc ELSE Append(acc, cur))
         ELSE Scan(s, i + 1, cur \o Char(s, i), acc)

Segments(s) == Scan(s, 1, "", <<>>)

\* normalizeString of an absolute path: "." is dropped, ".." pops a segment
\* and is dropped at the root.
RECURSIVE NormalizeSegs(_, _)
NormalizeSegs(segs, acc) ==
    IF segs = <<>> THEN acc
    ELSE LET s == Head(segs)
         IN IF s = "." THEN NormalizeSegs(Tail(segs), acc)
            ELSE IF s = ".."
                 THEN NormalizeSegs(Tail(segs),
                          IF acc = <<>> THEN acc ELSE SubSeq(acc, 1, Len(acc) - 1))
                 ELSE NormalizeSegs(Tail(segs), Append(acc, s))

RECURSIVE JoinSegs(_)
JoinSegs(segs) ==
    IF segs = <<>> THEN "" ELSE sep \o Head(segs) \o JoinSegs(Tail(segs))

AbsOfSegs(segs) == IF segs = <<>> THEN sep ELSE JoinSegs(segs)

\* path.resolve(from, to): to itself when it is absolute, else from/to; normalized,
\* without a trailing separator.  path.resolve(to) is resolve(cwd, to).
resolve(from, to) ==
    IF startsWith(to, sep)
    THEN AbsOfSegs(NormalizeSegs(Segments(to), <<>>))
    ELSE AbsOfSegs(NormalizeSegs(Segments(from \o sep \o to), <<>>))

\* path.join(dir, name), normalized.
join(dir, name) == AbsOfSegs(NormalizeSegs(Segments(dir \o sep \o name), <<>>))

\* path.dirname of an absolute normalized path; dirname("/") = "/".
dirname(p) ==
    LET segs == Segments(p)
    IN IF segs = <<>> THEN sep ELSE AbsOfSegs(SubSeq(segs, 1, Len(segs) - 1))

\* path.basename of an absolute normalized path.
basename(p) ==
    LET segs == Segments(p) IN IF segs = <<>> THEN "" ELSE segs[Len(segs)]

RECURSIVE CommonLen(_, _)
CommonLen(a, b) ==
    IF a = <<>> \/ b = <<>> \/ Head(a) # Head(b) THEN 0
    ELSE 1 + CommonLen(Tail(a), Tail(b))

RECURSIVE RelJoin(_)
RelJoin(segs) ==
    IF segs = <<>> THEN ""
    ELSE IF Len(segs) = 1 THEN Head(segs)
    ELSE Head(segs) \o sep \o RelJoin(Tail(segs))

\* path.relative(from, to) of two absolute normalized paths.
relative(from, to) ==
    LET a == Segments(from)
        b == Segments(to)
        n == CommonLen(a, b)
    IN RelJoin([i \in 1..(Len(a) - n) |-> ".."] \o SubSeq(b, n + 1, Len(b)))

----------------------------------------------------------------------------
(* The filesystem the fs module acts on *)

Dir == [kind |-> "dir", content |-> 0, target |-> ""]
File(c) == [kind |-> "file", content |-> c, target |-> ""]
Link(t) == [kind |-> "link", content |-> 0, target |-> t]

\* No entry (ENOENT); never a path.
NoEnt == ""

Child(dir, name) == IF dir = sep THEN sep \o name ELSE dir \o sep \o name

\* The entries directly inside the directory d.
ChildrenOf(F, d) == {q \in DOMAIN F : q # sep /\ dirname(q) = d}

\* The kernel's walk from the directory cur along segs, following every
\* symbolic link on the way (at most fuel of them: ELOOP).
RECURSIVE Walk(_, _, _, _)
Walk(F, cur, segs, fuel) ==
    IF segs = <<>> THEN cur
    ELSE IF F[cur].kind # "dir" THEN NoEnt
    ELSE LET q == Child(cur, Head(segs))
         IN IF q \notin DOMAIN F THEN NoEnt
            ELSE IF F[q].kind = "link"
                 THEN IF fuel = 0 THEN NoEnt
                      ELSE Walk(F, sep, Segments(F[q].target) \o Tail(segs), fuel - 1)
                 ELSE Walk(F, q, Tail(segs), fuel)

\* Links followed before the kernel gives up.
LinkFuel == 2

\* The entry path p names when every link is followed (stat), or NoEnt.
Real(F, p) == Walk(F, sep, Segments(p), LinkFuel)

\* The entry path p names when its last component is not followed (lstat).
LReal(F, p) ==
    IF p = sep THEN sep
    ELSE LET par == Real(F, dirname(p))
         IN IF par = NoEnt THEN NoEnt
            ELSE IF F[par].kind # "dir" THEN NoEnt
            ELSE IF Child(par, basename(p)) \in DOMAIN F
                 THEN Child(par, basename(p)) ELSE NoEnt

\* fs.existsSync(p)
existsSync(F, p) == Real(F, p) # NoEnt

\* fs.statSync(p).isDirectory(), for an existing p
isDirectory(F, p) == F[Real(F, p)].kind = "dir"

\* fs.readdirSync(p) of a directory p: the names in it, sorted (libuv scandir).
readdirSync(F, p) == SortedSeq({basename(q) : q \in ChildrenOf(F, Real(F, p))})

\* F without the entries of the set gone.
Without(F, gone) == [q \in DOMAIN F \ gone |-> F[q]]

\* The entry e and everything under it.
Subtree(F, e) == {q \in DOMAIN F : q = e \/ startsWith(q, Child(e, ""))}

\* What a call of the fs module that changes the disk can do: ok it returned,
\* leaving fs; ~ok it raised, leaving fs.
Returned(F) == [fs |-> F, ok |-> TRUE]
Raised(F) == [fs |-> F, ok |-> FALSE]

\* fs.unlinkSync(p): the entry goes unless it is missing or a directory; any
\* call can raise a platform error (EACCES, EBUSY, EIO).
unlinkSync(F, p) ==
    LET e == LReal(F, p)
    IN IF e = NoEnt THEN {Raised(F)}
       ELSE IF F[e].kind = "dir" THEN {Raised(F)}
       ELSE {Raised(F), Returned(Without(F, {e}))}

\* fs.rmdirSync(p): an empty directory goes (ENOTDIR for a link to one,
\* ENOTEMPTY, EBUSY for the root).
rmdirSync(F, p) ==
    LET e == LReal(F, p)
    IN IF e = NoEnt \/ e = sep THEN {Raised(F)}
       ELSE IF F[e].kind # "dir" \/ ChildrenOf(F, e) # {} THEN {Raised(F)}
       ELSE {Raised(F), Returned(Without(F, {e}))}

\* fs.mkdirSync(p, { recursive: true }): every missing directory down to p is
\* made, top down; EEXIST or ENOTDIR when something else is in the way.
RECURSIVE mkdirSync(_, _)
mkdirSync(F, p) ==
    IF existsSync(F, p)
    THEN (IF isDirectory(F, p) THEN {Returned(F)} ELSE {Raised(F)})
    ELSE IF LReal(F, p) # NoEnt THEN {Raised(F)}
    ELSE UNION { IF ~o.ok THEN {o}
                 ELSE { Raised(o.fs),
                        Returned(o.fs @@ (Child(Real(o.fs, dirname(p)), basename(p))
                                             :> Dir)) }
                 : o \in mkdirSync(F, dirname(p)) }

\* The filesystem after the entry s, with all that is under it, became d.
Moved(F, s, d) ==
    LET from == Subtree(F, s)
        to == {d \o SubSeq(q, Len(s) + 1, Len(q)) : q \in from}
        stay == (DOMAIN F \ from) \ {d}
    IN [k \in stay \cup to |->
            IF k \in to THEN F[s \o SubSeq(k, Len(d) + 1, Len(k))] ELSE F[k]]

\* rename(2) accepts the pair: s exists and is not the root, d is not inside s,
\* and what d replaces is of s's kind (an empty directory for a directory).
canRename(F, s, d) ==
    /\ s # NoEnt
    /\ s # sep
    /\ ~startsWith(d, s \o sep)
    /\ d \in DOMAIN F =>
          IF F[s].kind = "dir"
          THEN F[d].kind = "dir" /\ ChildrenOf(F, d) = {}
          ELSE F[d].kind # "dir"

\* renameSync that leaves the source in place (a copy).
renameSync_keepsSource(F, oldPath, newPath) ==
    LET s == LReal(F, oldPath)
        dp == Real(F, dirname(newPath))
        d == Child(dp, basename(newPath))
    IN IF newPath = sep \/ dp = NoEnt THEN {Raised(F)}
       ELSE IF F[dp].kind # "dir" THEN {Raised(F)}
       ELSE IF s = d THEN {Raised(F), Returned(F)}
       ELSE IF canRename(F, s, d)
            THEN {Raised(F), Returned(Moved(F, s, d) @@ F)}
       ELSE {Raised(F)}

\* fs.renameSync(oldPath, newPath): neither last component is followed; a
\* rename of an entry to itself does nothing and returns.
renameSync(F, oldPath, newPath) ==
    LET s == LReal(F, oldPath)
        dp == Real(F, dirname(newPath))
        d == Child(dp, basename(newPath))
    IN IF newPath = sep \/ dp = NoEnt THEN {Raised(F)}
       ELSE IF F[dp].kind # "dir" THEN {Raised(F)}
       ELSE IF s = d THEN {Raised(F), Returned(F)}
       ELSE IF canRename(F, s, d) THEN {Raised(F), Returned(Moved(F, s, d))}
       ELSE {Raised(F)}

----------------------------------------------------------------------------
(* Shared by the three commands *)

\* null
Null == ""

\* The predicate of line 21: a listed name that ends with .code-workspace
hasWorkspaceFile(F, currentPath) ==
    \E i \in 1..Len(readdirSync(F, currentPath)) :
        endsWith(readdirSync(F, currentPath)[i], ".code-workspace")

\* hasIndicator without the .git test.
hasIndicator_noGit(F, currentPath) ==
    \/ existsSync(F, join(currentPath, ".vscode"))
    \/ existsSync(F, join(currentPath, "package.json"))
    \/ hasWorkspaceFile(F, currentPath)

\* The condition of lines 23-26.
hasIndicator(F, currentPath) ==
    \/ existsSync(F, join(currentPath, ".vscode"))
    \/ existsSync(F, join(currentPath, ".git"))
    \/ existsSync(F, join(currentPath, "package.json"))
    \/ hasWorkspaceFile(F, currentPath)

\* findWorkspaceRoot(startPath) when no readdirSync raises: the directory it
\* returns, or Null.
RECURSIVE findLoop(_, _)
findLoop(F, currentPath) ==
    IF currentPath = dirname(currentPath) THEN Null
    ELSE IF hasIndicator(F, currentPath) THEN currentPath
    ELSE findLoop(F, dirname(currentPath))

findWorkspaceRoot(F, startPath) == findLoop(F, resolve(cwd, startPath))

\* findWorkspaceRoot makes at least one readdirSync call, which can raise.
findCanThrow(startPath) == resolve(cwd, startPath) # sep

\* isWithinWorkspace with the separator left out of the prefix.
isWithinWorkspace_noSep(targetPath, workspaceRoot_) ==
    LET resolvedTarget == resolve(cwd, targetPath)
        resolvedWorkspace == resolve(cwd, workspaceRoot_)
    IN \/ startsWith(resolvedTarget, resolvedWorkspace)
       \/ resolvedTarget = resolvedWorkspace

isWithinWorkspace(targetPath, workspaceRoot_) ==
    LET resolvedTarget == resolve(cwd, targetPath)
        resolvedWorkspace == resolve(cwd, workspaceRoot_)
    IN \/ startsWith(resolvedTarget, resolvedWorkspace \o sep)
       \/ resolvedTarget = resolvedWorkspace

----------------------------------------------------------------------------
(* The process: argv, the streams, the exit code *)

\* console.log and console.error print these pictographs, written here in ASCII:
\* [x] cross mark, [ok] check mark, [dir] folder, [home] house, [warn] warning,
\* [idx] card index dividers, [bin] wastebasket, [open] open folder.

includes(args, s) == \E i \in 1..Len(args) : args[i] = s

\* args.filter(arg => !arg.startsWith('--'))
notDashDash(a) == ~startsWith(a, "--")

\* rm: args.filter(arg => !arg.startsWith('--') && arg !== '-r' && arg !== '-f')
notRmFlag(a) == ~startsWith(a, "--") /\ a # "-r" /\ a # "-f"

\* The exit code of a process that is still running.
NotExited == <<>>

\* process.exit(code), or the return of main() with code 0, after printing out and err.
Exit(code, out, err, root) ==
    /\ pc' = "done"
    /\ exitCode' = <<code>>
    /\ stdout' = stdout \o out
    /\ stderr' = stderr \o err
    /\ workspaceRoot' = root
    /\ UNCHANGED <<cmd, argv, cwd, fs, fs0, idx, removedCount, attempted, renamed, threw>>

\* An exception that no try block of main() catches: node reports it on stderr
\* and the process exits 1.  F is the filesystem at that moment.
Uncaught(F, out, root) ==
    /\ pc' = "done"
    /\ exitCode' = <<1>>
    /\ threw' = TRUE
    /\ fs' = F
    /\ stdout' = stdout \o out
    /\ stderr' = Append(stderr, "Uncaught Error")
    /\ workspaceRoot' = root
    /\ UNCHANGED <<cmd, argv, cwd, fs0, idx, removedCount, attempted, renamed>>

NoRootError ==
    << "[x] Could not find workspace root",
       "   (looked for .vscode/, .git/, package.json, *.code-workspace)" >>

yesNo(b) == IF b THEN "[ok] Yes" ELSE "[x] No"

rootOr(rel) == IF rel = "" THEN "(root)" ELSE rel

\* cd-vs-local: the usage text, lines 47-65.
CdHelp ==
    << "Usage: cd-vs-local <directory>",
       "",
       "Change directory while staying within VS Code workspace bounds.",
       "",
       "This tool:",
       "  - Finds the workspace root (looks for .vscode/, .git/, package.json, *.code-workspace)",
       "  - Prevents cd outside of the workspace",
       "  - Shows the resolved path and workspace context",
       "",
       "Options:",
       "  --help, -h      Show this help message",
       "  --check         Just check if a path is within workspace (no cd)",
       "  --show-root     Show the detected workspace root",
       "",
       "Examples:",
       "  cd-vs-local ../other-project     # cd to sibling project if within workspace",
       "  cd-vs-local ../../               # Blocked if it would exit workspace",
       "  cd-vs-local --show-root          # Show workspace root",
       "  cd-vs-local --check ../path      # Check if path is within workspace" >>

\* mv-vs-local: the usage text, lines 47-65.
MvHelp ==
    << "Usage: mv-vs-local <source> <destination>",
       "",
       "Move/rename files while staying within VS Code workspace bounds.",
       "",
       "This tool:",
       "  - Finds the workspace root (looks for .vscode/, .git/, package.json, *.code-workspace)",
       "  - Prevents moving files outside of the workspace",
       "  - Shows the resolved paths and workspace context",
       "",
       "Options:",
       "  --help, -h      Show this help message",
       "  --check         Just check if paths are within workspace (no move)",
       "  --show-root     Show the detected workspace root",
       "",
       "Examples:",
       "  mv-vs-local old.txt new.txt                # Rename file",
       "  mv-vs-local src/file.js lib/file.js        # Move file within workspace",
       "  mv-vs-local temp/ archive/                 # Move directory",
       "  mv-vs-local --check src/file.js ../outside # Check if move would be allowed" >>

\* rm-vs-local: the usage text, lines 61-81.
RmHelp ==
    << "Usage: rm-vs-local [options] <file1> [file2] ...",
       "",
       "Remove files while staying within VS Code workspace bounds.",
       "",
       "This tool:",
       "  - Finds the workspace root (looks for .vscode/, .git/, package.json, *.code-workspace)",
       "  - Prevents removing files outside of the workspace",
       "  - Shows the resolved paths and workspace context",
       "",
       "Options:",
       "  --help, -h      Show this help message",
       "  --check         Just check if paths are within workspace (no removal)",
       "  --show-root     Show the detected workspace root",
       "  --recursive, -r Remove directories recursively",
       "  --force, -f     Force removal without confirmation",
       "",
       "Examples:",
       "  rm-vs-local temp.txt                      # Remove file",
       "  rm-vs-local file1.txt file2.txt          # Remove multiple files",
       "  rm-vs-local --recursive temp/             # Remove directory recursively",
       "  rm-vs-local --check ../outside-file.txt  # Check if removal would be allowed" >>

----------------------------------------------------------------------------
(* cd-vs-local *)

\* main(), lines 83-129: the root is found and --show-root is not given.
CdTarget(root) ==
    LET nonFlag == SelectSeq(argv, notDashDash)
    IN IF nonFlag = <<>>
       THEN Exit(1, <<>>, << "[x] Please provide a target directory",
                             "Usage: cd-vs-local <directory>",
                             "Use --help for more information" >>, root)
       ELSE LET targetPath == nonFlag[1]
                absoluteTargetPath == resolve(cwd, targetPath)
            IN IF includes(argv, "--check")
               THEN Exit(IF isWithinWorkspace(absoluteTargetPath, root) THEN 0 ELSE 1,
                         << "Path: " \o absoluteTargetPath,
                            "Workspace: " \o root,
                            "Within workspace: "
                                \o yesNo(isWithinWorkspace(absoluteTargetPath, root)) >>,
                         <<>>, root)
               ELSE IF ~existsSync(fs, absoluteTargetPath)
               THEN Exit(1, <<>>,
                         << "[x] Directory does not exist: " \o absoluteTargetPath >>, root)
               ELSE IF ~isDirectory(fs, absoluteTargetPath)
               THEN Exit(1, <<>>, << "[x] Not a directory: " \o absoluteTargetPath >>, root)
               ELSE IF ~isWithinWorkspace(absoluteTargetPath, root)
               THEN Exit(1, <<>>,
                         << "[x] Target directory is outside workspace bounds",
                            "   Target: " \o absoluteTargetPath,
                            "   Workspace: " \o root,
                            "   Use regular 'cd' if you need to go outside the workspace" >>,
                         root)
               ELSE Exit(0,
                         << "[ok] cd " \o relative(cwd, absoluteTargetPath),
                            "[dir] " \o absoluteTargetPath,
                            "[home] Workspace: "
                                \o rootOr(relative(root, absoluteTargetPath)),
                            "CHANGE_DIR=" \o absoluteTargetPath >>,
                         <<>>, root)

\* main() of cd-vs-local.js: the whole run, which changes nothing on disk.
CdMain ==
    /\ cmd = "cd"
    /\ pc = "start"
    /\ IF includes(argv, "--help") \/ includes(argv, "-h")
       THEN Exit(0, CdHelp, <<>>, Null)
       ELSE \/ findCanThrow(cwd) /\ Uncaught(fs, <<>>, Null)
            \/ LET root == findWorkspaceRoot(fs, cwd)
               IN IF root = Null THEN Exit(1, <<>>, NoRootError, Null)
                  ELSE IF includes(argv, "--show-root")
                  THEN Exit(0, << "[dir] Workspace root: " \o root >>, <<>>, root)
                  ELSE CdTarget(root)

----------------------------------------------------------------------------
(* mv-vs-local *)

\* const [sourcePath, destPath] = nonFlagArgs, resolved (lines 91-93)
absoluteSourcePath == resolve(cwd, SelectSeq(argv, notDashDash)[1])

absoluteDestPath == resolve(cwd, SelectSeq(argv, notDashDash)[2])

\* main(), lines 83-125: the root is found and --show-root is not given.  The
\* run either ends here or goes on to the two calls that change the disk.
MvCheck(root) ==
    IF Len(SelectSeq(argv, notDashDash)) # 2
    THEN Exit(1, <<>>, << "[x] Please provide source and destination paths",
                          "Usage: mv-vs-local <source> <destination>",
                          "Use --help for more information" >>, root)
    ELSE IF includes(argv, "--check")
    THEN LET sourceWithinWorkspace == isWithinWorkspace(absoluteSourcePath, root)
             destWithinWorkspace == isWithinWorkspace(absoluteDestPath, root)
         IN Exit(IF sourceWithinWorkspace /\ destWithinWorkspace THEN 0 ELSE 1,
                 << "Source: " \o absoluteSourcePath,
                    "Destination: " \o absoluteDestPath,
                    "Workspace: " \o root,
                    "Source within workspace: " \o yesNo(sourceWithinWorkspace),
                    "Destination within workspace: " \o yesNo(destWithinWorkspace) >>,
                 <<>>, root)
    ELSE IF ~existsSync(fs, absoluteSourcePath)
    THEN Exit(1, <<>>, << "[x] Source does not exist: " \o absoluteSourcePath >>, root)
    ELSE IF ~isWithinWorkspace(absoluteSourcePath, root)
    THEN Exit(1, <<>>,
              << "[x] Source is outside workspace bounds",
                 "   Source: " \o absoluteSourcePath,
                 "   Workspace: " \o root,
                 "   Use regular 'mv' if you need to work outside the workspace" >>, root)
    ELSE IF ~isWithinWorkspace(absoluteDestPath, root)
    THEN Exit(1, <<>>,
              << "[x] Destination is outside workspace bounds",
                 "   Destination: " \o absoluteDestPath,
                 "   Workspace: " \o root,
                 "   Use regular 'mv' if you need to work outside the workspace" >>, root)
    ELSE /\ pc' = "mkdir"
         /\ workspaceRoot' = root
         /\ UNCHANGED <<cmd, argv, cwd, fs, fs0, exitCode, stdout, stderr, idx,
                        removedCount, attempted, renamed, threw>>

\* main() of mv-vs-local.js, lines 44-125: everything before the disk changes.
MvStart ==
    /\ cmd = "mv"
    /\ pc = "start"
    /\ IF includes(argv, "--help") \/ includes(argv, "-h")
       THEN Exit(0, MvHelp, <<>>, Null)
       ELSE \/ findCanThrow(cwd) /\ Uncaught(fs, <<>>, Null)
            \/ LET root == findWorkspaceRoot(fs, cwd)
               IN IF root = Null THEN Exit(1, <<>>, NoRootError, Null)
                  ELSE IF includes(argv, "--show-root")
                  THEN Exit(0, << "[dir] Workspace root: " \o root >>, <<>>, root)
                  ELSE MvCheck(root)

\* Lines 127-132: the destination's directory is made when it is missing; an
\* error of mkdirSync is caught nowhere.
MvMkdir ==
    /\ cmd = "mv"
    /\ pc = "mkdir"
    /\ LET destDir == dirname(absoluteDestPath)
       IN IF ~existsSync(fs, destDir)
          THEN \E o \in mkdirSync(fs, destDir) :
                  IF o.ok
                  THEN /\ fs' = o.fs
                       /\ stdout' = Append(stdout, "[dir] Created directory: " \o destDir)
                       /\ pc' = "rename"
                       /\ UNCHANGED <<cmd, argv, cwd, fs0, exitCode, stderr, workspaceRoot,
                                      idx, removedCount, attempted, renamed, threw>>
                  ELSE Uncaught(o.fs, <<>>, workspaceRoot)
          ELSE /\ pc' = "rename"
               /\ UNCHANGED <<cmd, argv, cwd, fs, fs0, exitCode, stdout, stderr,
                              workspaceRoot, idx, removedCount, attempted, renamed, threw>>

\* Lines 134-150: the rename and its report, or the caught error and exit 1.
MvRename ==
    /\ cmd = "mv"
    /\ pc = "rename"
    /\ \E o \in renameSync(fs, absoluteSourcePath, absoluteDestPath) :
          /\ pc' = "done"
          /\ fs' = o.fs
          /\ renamed' = o.ok
          /\ exitCode' = IF o.ok THEN <<0>> ELSE <<1>>
          /\ stdout' = IF o.ok
                THEN stdout \o
                     << "[ok] mv " \o relative(cwd, absoluteSourcePath) \o " -> "
                            \o relative(cwd, absoluteDestPath),
                        "[open] " \o absoluteSourcePath \o " -> " \o absoluteDestPath,
                        "[home] Workspace: "
                            \o rootOr(relative(workspaceRoot, absoluteSourcePath))
                            \o " -> "
                            \o rootOr(relative(workspaceRoot, absoluteDestPath)) >>
                ELSE stdout
          /\ stderr' = IF o.ok THEN stderr
                       ELSE Append(stderr, "[x] Failed to move: error")
          /\ UNCHANGED <<cmd, argv, cwd, fs0, workspaceRoot, idx, removedCount,
                         attempted, threw>>

----------------------------------------------------------------------------
(* rm-vs-local *)

isRecursive == includes(argv, "--recursive") \/ includes(argv, "-r")

isForce == includes(argv, "--force") \/ includes(argv, "-f")

isCheck == includes(argv, "--check")

targetPaths == SelectSeq(argv, notRmFlag)

\* resolvedPaths[i].absolute (lines 112-115)
absolute(i) == resolve(cwd, targetPaths[i])

\* resolvedPaths[i].relative
relativeOf(i) == relative(cwd, absolute(i))

\* removeRecursively(targetPath), lines 43-55: every way the call can end.  A
\* directory's entries are removed in the order readdirSync lists them, then
\* the directory; the first exception ends the call.
RECURSIVE removeRecursively(_, _)
RECURSIVE removeEach(_, _, _)
removeRecursively(F, targetPath) ==
    IF ~existsSync(F, targetPath) THEN {Raised(F)}
    ELSE IF isDirectory(F, targetPath)
    THEN {Raised(F)}
         \cup UNION { IF o.ok THEN rmdirSync(o.fs, targetPath) ELSE {o}
                      : o \in removeEach(F, targetPath, readdirSync(F, targetPath)) }
    ELSE unlinkSync(F, targetPath)

\* for (const file of files) removeRecursively(path.join(targetPath, file))
removeEach(F, targetPath, files) ==
    IF files = <<>> THEN {Returned(F)}
    ELSE UNION { IF o.ok THEN removeEach(o.fs, targetPath, Tail(files)) ELSE {o}
                 : o \in removeRecursively(F, join(targetPath, Head(files))) }

\* The try block of lines 168-179 for one target.
removeTarget(F, targetPath) ==
    IF ~existsSync(F, targetPath) THEN {Raised(F)}
    ELSE IF isDirectory(F, targetPath) THEN removeRecursively(F, targetPath)
    ELSE unlinkSync(F, targetPath)

\* The lines --check prints for the targets from the i-th on (lines 119-122).
RECURSIVE checkLines(_, _)
checkLines(root, i) ==
    IF i > Len(targetPaths) THEN <<>>
    ELSE << absolute(i) \o ": " \o
            (IF isWithinWorkspace(absolute(i), root)
             THEN "[ok] Within workspace" ELSE "[x] Outside workspace") >>
         \o checkLines(root, i + 1)

\* validate that returns after the i-th target instead of going on.
validate_first(root, i) ==
    IF i > Len(targetPaths) THEN <<>>
    ELSE IF ~isWithinWorkspace(absolute(i), root)
    THEN << "[x] Target is outside workspace bounds",
            "   Target: " \o absolute(i),
            "   Workspace: " \o root,
            "   Use regular 'rm' if you need to work outside the workspace" >>
    ELSE IF ~existsSync(fs, absolute(i))
    THEN << "[x] File does not exist: " \o absolute(i) >>
    ELSE IF isDirectory(fs, absolute(i)) /\ ~isRecursive
    THEN << "[x] " \o absolute(i) \o " is a directory",
            "   Use --recursive to remove directories" >>
    ELSE <<>>

\* The loop of lines 128-148 from the i-th target on: the error of the first
\* target that fails, or nothing.
RECURSIVE validate(_, _)
validate(root, i) ==
    IF i > Len(targetPaths) THEN <<>>
    ELSE IF ~isWithinWorkspace(absolute(i), root)
    THEN << "[x] Target is outside workspace bounds",
            "   Target: " \o absolute(i),
            "   Workspace: " \o root,
            "   Use regular 'rm' if you need to work outside the workspace" >>
    ELSE IF ~existsSync(fs, absolute(i))
    THEN << "[x] File does not exist: " \o absolute(i) >>
    ELSE IF isDirectory(fs, absolute(i)) /\ ~isRecursive
    THEN << "[x] " \o absolute(i) \o " is a directory",
            "   Use --recursive to remove directories" >>
    ELSE validate(root, i + 1)

\* The lines of the confirmation display for the targets from the i-th on, up
\* to the first one that statSync does not find.
RECURSIVE willRemove(_)
willRemove(i) ==
    IF i > Len(targetPaths) THEN <<>>
    ELSE IF ~existsSync(fs, absolute(i)) THEN <<>>
    ELSE << "  " \o (IF isDirectory(fs, absolute(i)) THEN "directory" ELSE "file")
            \o ": " \o relativeOf(i) \o " (workspace: "
            \o rootOr(relative(workspaceRoot, absolute(i))) \o ")" >>
         \o willRemove(i + 1)

\* resolvedPaths.map(p => path.relative(workspaceRoot, p.absolute) || '(root)').join(', ')
RECURSIVE joinRelative(_)
joinRelative(i) ==
    IF i > Len(targetPaths) THEN ""
    ELSE rootOr(relative(workspaceRoot, absolute(i)))
         \o (IF i < Len(targetPaths) THEN ", " ELSE "") \o joinRelative(i + 1)

\* RmCheck without the process.exit that ends the --check branch.
RmCheck_noExit(root) ==
    IF Len(targetPaths) = 0
    THEN Exit(1, <<>>, << "[x] Please provide at least one file or directory to remove",
                          "Usage: rm-vs-local [options] <file1> [file2] ...",
                          "Use --help for more information" >>, root)
    ELSE /\ pc' = "validate"
         /\ workspaceRoot' = root
         /\ stdout' = IF isCheck
                      THEN stdout \o << "Workspace: " \o root >> \o checkLines(root, 1)
                      ELSE stdout
         /\ UNCHANGED <<cmd, argv, cwd, fs, fs0, exitCode, stderr, idx,
                        removedCount, attempted, renamed, threw>>

\* main(), lines 99-125: the root is found and --show-root is not given.
RmCheck(root) ==
    IF Len(targetPaths) = 0
    THEN Exit(1, <<>>, << "[x] Please provide at least one file or directory to remove",
                          "Usage: rm-vs-local [options] <file1> [file2] ...",
                          "Use --help for more information" >>, root)
    ELSE IF isCheck
    THEN Exit(IF \A i \in 1..Len(targetPaths) : isWithinWorkspace(absolute(i), root)
              THEN 0 ELSE 1,
              << "Workspace: " \o root >> \o checkLines(root, 1), <<>>, root)
    ELSE /\ pc' = "validate"
         /\ workspaceRoot' = root
         /\ UNCHANGED <<cmd, argv, cwd, fs, fs0, exitCode, stdout, stderr, idx,
                        removedCount, attempted, renamed, threw>>

\* main() of rm-vs-local.js, lines 58-125.
RmStart ==
    /\ cmd = "rm"
    /\ pc = "start"
    /\ IF includes(argv, "--help") \/ includes(argv, "-h")
       THEN Exit(0, RmHelp, <<>>, Null)
       ELSE \/ findCanThrow(cwd) /\ Uncaught(fs, <<>>, Null)
            \/ LET root == findWorkspaceRoot(fs, cwd)
               IN IF root = Null THEN Exit(1, <<>>, NoRootError, Null)
                  ELSE IF includes(argv, "--show-root")
                  THEN Exit(0, << "[dir] Workspace root: " \o root >>, <<>>, root)
                  ELSE RmCheck(root)

\* Lines 127-148: every target is validated before any is removed.
RmValidate ==
    /\ cmd = "rm"
    /\ pc = "validate"
    /\ IF validate(workspaceRoot, 1) # <<>>
       THEN Exit(1, <<>>, validate(workspaceRoot, 1), workspaceRoot)
       ELSE /\ pc' = "confirm"
            /\ UNCHANGED <<cmd, argv, cwd, fs, fs0, exitCode, stdout, stderr,
                           workspaceRoot, idx, removedCount, attempted, renamed, threw>>

\* Lines 150-163: the display of what will be removed; the run goes on.  The
\* statSync of line 154 is in no try block.
RmConfirm ==
    /\ cmd = "rm"
    /\ pc = "confirm"
    /\ IF ~isForce /\ Len(targetPaths) > 0
       THEN IF \E i \in 1..Len(targetPaths) : ~existsSync(fs, absolute(i))
            THEN Uncaught(fs, << "Will remove:" >> \o willRemove(1), workspaceRoot)
            ELSE /\ pc' = "remove"
                 /\ stdout' = stdout \o << "Will remove:" >> \o willRemove(1)
                       \o << "[warn]  Proceeding with removal (use --force to skip this message)" >>
                 /\ UNCHANGED <<cmd, argv, cwd, fs, fs0, exitCode, stderr, workspaceRoot,
                                idx, removedCount, attempted, renamed, threw>>
       ELSE /\ pc' = "remove"
            /\ UNCHANGED <<cmd, argv, cwd, fs, fs0, exitCode, stdout, stderr,
                           workspaceRoot, idx, removedCount, attempted, renamed, threw>>

\* RmRemove whose catch block ends the run at the first removal that fails.
RmRemove_abortOnFailure ==
    /\ cmd = "rm"
    /\ pc = "remove"
    /\ idx <= Len(targetPaths)
    /\ \E o \in removeTarget(fs, absolute(idx)) :
          /\ fs' = o.fs
          /\ removedCount' = IF o.ok THEN removedCount + 1 ELSE removedCount
          /\ stdout' = IF o.ok
                       THEN Append(stdout,
                                (IF isDirectory(fs, absolute(idx))
                                 THEN "[idx]  Removed directory: "
                                 ELSE "[bin]  Removed file: ") \o relativeOf(idx))
                       ELSE stdout
          /\ stderr' = IF o.ok THEN stderr
                       ELSE Append(stderr,
                                "[x] Failed to remove " \o relativeOf(idx) \o ": error")
          /\ pc' = IF o.ok THEN pc ELSE "done"
          /\ exitCode' = IF o.ok THEN exitCode ELSE <<1>>
    /\ attempted' = Append(attempted, absolute(idx))
    /\ idx' = idx + 1
    /\ UNCHANGED <<cmd, argv, cwd, fs0, workspaceRoot, renamed, threw>>

\* One turn of the loop of lines 167-183.
RmRemove ==
    /\ cmd = "rm"
    /\ pc = "remove"
    /\ idx <= Len(targetPaths)
    /\ \E o \in removeTarget(fs, absolute(idx)) :
          /\ fs' = o.fs
          /\ removedCount' = IF o.ok THEN removedCount + 1 ELSE removedCount
          /\ stdout' = IF o.ok
                       THEN Append(stdout,
                                (IF isDirectory(fs, absolute(idx))
                                 THEN "[idx]  Removed directory: "
                                 ELSE "[bin]  Removed file: ") \o relativeOf(idx))
                       ELSE stdout
          /\ stderr' = IF o.ok THEN stderr
                       ELSE Append(stderr,
                                "[x] Failed to remove " \o relativeOf(idx) \o ": error")
    /\ attempted' = Append(attempted, absolute(idx))
    /\ idx' = idx + 1
    /\ UNCHANGED <<cmd, argv, cwd, fs0, pc, exitCode, workspaceRoot, renamed, threw>>

\* Lines 185-191, and the return of main(): exit code 0.
RmReport ==
    /\ cmd = "rm"
    /\ pc = "remove"
    /\ idx > Len(targetPaths)
    /\ Exit(0,
            IF removedCount > 0
            THEN << "[ok] Removed " \o ToString(removedCount) \o " item(s)",
                    "[home] Workspace: " \o joinRelative(1) >>
            ELSE <<>>,
            <<>>, workspaceRoot)

----------------------------------------------------------------------------
(* The locator alone *)

\* findWorkspaceRoot(process.cwd()) and nothing else.
Locate ==
    /\ cmd = "locate"
    /\ pc = "start"
    /\ \/ findCanThrow(cwd) /\ Uncaught(fs, <<>>, Null)
       \/ /\ pc' = "done"
          /\ workspaceRoot' = findWorkspaceRoot(fs, cwd)
          /\ UNCHANGED <<cmd, argv, cwd, fs, fs0, exitCode, stdout, stderr, idx,
                         removedCount, attempted, renamed, threw>>

----------------------------------------------------------------------------
(* The containment checker alone *)

\* console.log(isWithinWorkspace(candidate, root)) and nothing else; argv holds
\* the candidate and the root.
Within ==
    /\ cmd = "within"
    /\ pc = "start"
    /\ pc' = "done"
    /\ stdout' = << IF isWithinWorkspace(argv[1], argv[2]) THEN "true" ELSE "false" >>
    /\ UNCHANGED <<cmd, argv, cwd, fs, fs0, exitCode, stderr, workspaceRoot, idx,
                   removedCount, attempted, renamed, threw>>

----------------------------------------------------------------------------
(* The runs that are checked *)

\* The longest list of path arguments of a run.
MaxTargets == 2

\* The deepest starting directory of the locator's runs.
MaxDepth == 3

EmptyFS == [q \in {} |-> Dir]

\* A workspace /w with a file and a directory in it, next to a directory /ws
\* whose name extends the workspace's, and a directory /o.
BaseFS ==
    (sep :> Dir) @@ ("/w" :> Dir) @@ ("/w/f" :> File(1)) @@ ("/w/d" :> Dir)
    @@ ("/w/d/f" :> File(2)) @@ ("/ws" :> Dir) @@ ("/ws/f" :> File(3))
    @@ ("/o" :> Dir) @@ ("/o/f" :> File(4))

\* Where the indicators are.
Indicators(layout) ==
    CASE layout = "w" -> ("/w/.git" :> Dir)
      [] layout = "nested" -> ("/w/.git" :> Dir) @@ ("/w/d/package.json" :> File(5))
      [] layout = "fsroot" -> ("/.git" :> Dir)
      [] layout = "none" -> EmptyFS

\* The layouts with the current directories of a run.
Scenes ==
    { <<"w", "/w">>, <<"w", "/w/d">>, <<"nested", "/w/d">>, <<"none", "/w">>,
      <<"fsroot", "/w">> }

\* /w/l is a symbolic link to a directory outside or inside the workspace.
LinkTargets == {"/o", "/w/d"}

SceneFS(layout, t) == BaseFS @@ Indicators(layout) @@ ("/w/l" :> Link(t))

FlagLists(c) ==
    IF c = "rm"
    THEN { r \o f \o k : r \in {<<>>, <<"-r">>}, f \in {<<>>, <<"-f">>},
                         k \in {<<>>, <<"--check">>} }
         \cup { <<"--recursive", "--force">>, <<"--help">>, <<"--show-root">> }
    ELSE { <<>>, <<"--check">>, <<"--show-root">>,
           IF c = "cd" THEN <<"--help">> ELSE <<"-h">> }

PathArgs(c) ==
    CASE c = "cd" -> {"d", "f", "x", "..", "/ws", "l"}
      [] c = "mv" -> {"f", "d", "x", "/ws/f", "d/x/y", "l/f", "d/f"}
      [] c = "rm" -> {"f", "d", "l", "x", "..", "/ws/f"}

PathLists(c) == UNION { [1..n -> PathArgs(c)] : n \in 0..MaxTargets }

InitRun ==
    /\ pc = "start"
    /\ exitCode = NotExited
    /\ stdout = <<>>
    /\ stderr = <<>>
    /\ workspaceRoot = Null
    /\ idx = 1
    /\ removedCount = 0
    /\ attempted = <<>>
    /\ renamed = FALSE
    /\ threw = FALSE
    /\ fs0 = fs

Init ==
    /\ cmd \in {"cd", "mv", "rm"}
    /\ \E sc \in Scenes, t \in LinkTargets :
          /\ fs = SceneFS(sc[1], t)
          /\ cwd = sc[2]
    /\ \E fl \in FlagLists(cmd), ps \in PathLists(cmd) : argv = fl \o ps
    /\ InitRun

\* The locator's runs: a chain of directories /, /w, /w/d, ... each holding
\* one of these.
ChainName == <<"w", "d", "e", "g", "h", "i">>

ChainDir(n) == AbsOfSegs(SubSeq(ChainName, 1, n))

Holdings ==
    {"nothing", "vscode", "git", "gitfile", "package", "workspacefile", "other"}

Holding(dir, h) ==
    CASE h = "nothing" -> EmptyFS
      [] h = "vscode" -> (Child(dir, ".vscode") :> Dir)
      [] h = "git" -> (Child(dir, ".git") :> Dir)
      [] h = "gitfile" -> (Child(dir, ".git") :> File(1))
      [] h = "package" -> (Child(dir, "package.json") :> File(1))
      [] h = "workspacefile" -> (Child(dir, "p.code-workspace") :> File(1))
      [] h = "other" -> (Child(dir, "p.code-workspace.txt") :> File(1))

RECURSIVE ChainFS(_, _)
ChainFS(hs, n) ==
    IF n < 0 THEN EmptyFS
    ELSE (ChainDir(n) :> Dir) @@ Holding(ChainDir(n), hs[n]) @@ ChainFS(hs, n - 1)

InitLoc ==
    /\ cmd = "locate"
    /\ argv = <<>>
    /\ \E hs \in [0..MaxDepth -> Holdings] : fs = ChainFS(hs, MaxDepth)
    /\ cwd \in {ChainDir(n) : n \in 0..MaxDepth}
    /\ InitRun

\* The containment checker's runs: every pair of normalized absolute paths of
\* at most MaxPathLen segments with these names.
MaxPathLen == 3

SegNames == {"w", "w_sibling", "x"}

NormalPaths == {AbsOfSegs(segs) : segs \in UNION { [1..n -> SegNames] : n \in 0..MaxPathLen }}

InitWithin ==
    /\ cmd = "within"
    /\ \E candidate \in NormalPaths, root \in NormalPaths : argv = <<candidate, root>>
    /\ fs = (sep :> Dir)
    /\ cwd = sep
    /\ InitRun

----------------------------------------------------------------------------
(* What the claims speak of *)

helpGiven == includes(argv, "--help") \/ includes(argv, "-h")

showRootGiven == includes(argv, "--show-root")

checkGiven == includes(argv, "--check")

recursiveGiven == includes(argv, "--recursive") \/ includes(argv, "-r")

Done == pc = "done"

isPathArg(a) == ~startsWith(a, "-")

\* The paths given on the command line, resolved against the current directory.
GivenPaths == SelectSeq(argv, isPathArg)

Given(i) == resolve(cwd, GivenPaths[i])

\* The workspace root of the run: the one the locator finds on the disk as it
\* is when the run starts.
Located == findWorkspaceRoot(fs0, cwd)

IsPrefixSeq(a, b) == Len(a) <= Len(b) /\ SubSeq(b, 1, Len(a)) = a

\* p is r or is nested under r in the directory tree, segment by segment.
Inside(p, r) == IsPrefixSeq(Segments(r), Segments(p))

\* The run does the command's own operation: none of --help, -h, --show-root
\* and --check, which each replace it by another one.
Operates == ~helpGiven /\ ~showRootGiven /\ ~checkGiven

\* The entries the run has deleted so far.
Deleted == DOMAIN fs0 \ DOMAIN fs

\* C1: in every run of rm-vs-local, every entry that is deleted lies inside the
\* located workspace root.
C1_DeletedInsideRoot ==
    cmd = "rm" => \A e \in Deleted : Located # Null /\ Inside(e, Located)

\* The i-th target fails the validation of rm-vs-local: it is outside the root,
\* or missing, or a directory while no recursive flag is given.
BadTarget(i) ==
    \/ Located # Null /\ ~Inside(Given(i), Located)
    \/ ~existsSync(fs0, Given(i))
    \/ isDirectory(fs0, Given(i)) /\ ~recursiveGiven

\* C2: when a target of a remove run fails the validation, whatever its place
\* in the list, nothing is ever deleted and the run exits 1.  (Stated as: a
\* remove run that has deleted something, or has ended otherwise than with
\* exit code 1, has no target that fails the validation.)
C2_AllOrNothing ==
    (cmd = "rm" /\ Operates /\ ~(fs = fs0 /\ (Done => exitCode = <<1>>)))
        => \A i \in 1..Len(GivenPaths) : ~BadTarget(i)

\* A run with two targets, the first valid and the second not, has ended.
C2_Witness ==
    /\ cmd = "rm" /\ Operates /\ Done /\ exitCode = <<1>>
    /\ Len(GivenPaths) = 2
    /\ ~BadTarget(1)
    /\ BadTarget(2)
    /\ Located # Null

\* C3: a move whose source or destination is outside the located root renames
\* nothing, makes no directory and exits 1.  (Stated as: a move of two paths
\* that has changed the disk, or has ended otherwise than with exit code 1,
\* has both paths inside the located root.)
C3_MoveOutsideUnchanged ==
    (/\ cmd = "mv" /\ ~helpGiven /\ ~showRootGiven
     /\ Len(GivenPaths) = 2
     /\ ~(fs = fs0 /\ ~renamed /\ (Done => exitCode = <<1>>))
     /\ Located # Null)
        => Inside(Given(1), Located) /\ Inside(Given(2), Located)

\* A move of an existing file of the workspace to a place outside has ended.
C3_Witness ==
    /\ cmd = "mv" /\ Operates /\ Done /\ ~threw
    /\ Len(GivenPaths) = 2
    /\ Located # Null
    /\ existsSync(fs0, Given(1))
    /\ Inside(Given(1), Located)
    /\ ~Inside(Given(2), Located)
    /\ exitCode = <<1>>

\* C4: a run of the move command ends with the rename done or with the
\* filesystem as it was before the run.
C4_MoveNeverPartial ==
    (cmd = "mv" /\ Done) => (renamed \/ fs = fs0)

\* What is at the entry e, with the paths taken from e.
Content(F, e) ==
    [r \in {SubSeq(q, Len(e) + 1, Len(q)) : q \in Subtree(F, e)} |-> F[e \o r]]

\* The entry the destination names when the rename is called, or NoEnt while
\* its directory is missing.
DestEntry(F) ==
    IF Real(F, dirname(Given(2))) = NoEnt THEN NoEnt
    ELSE Child(Real(F, dirname(Given(2))), basename(Given(2)))

\* A move of an existing source, with both paths inside the root, has exited 0.
MoveSucceeded ==
    /\ cmd = "mv" /\ Operates /\ Done /\ exitCode = <<0>>
    /\ Len(GivenPaths) = 2
    /\ existsSync(fs0, Given(1))
    /\ Inside(Given(1), Located) /\ Inside(Given(2), Located)

MovePostcondition ==
    /\ LReal(fs, Given(1)) = NoEnt
    /\ LReal(fs, Given(2)) # NoEnt
    /\ Content(fs, LReal(fs, Given(2))) = Content(fs0, LReal(fs0, Given(1)))

\* C5 as claimed: after a move that exits 0 the source is gone from its old
\* path and the destination holds what the source held.
C5_MovePostcondition == MoveSucceeded => MovePostcondition

\* C5 as amended: the same, for a source and a destination that do not name
\* the same entry.
C5_MovePostconditionDistinct ==
    (MoveSucceeded /\ DestEntry(fs0) # LReal(fs0, Given(1))) => MovePostcondition

\* A directory with a file in it has been moved to a new name.
C5_Witness ==
    /\ MoveSucceeded
    /\ DestEntry(fs0) # LReal(fs0, Given(1))
    /\ fs0[LReal(fs0, Given(1))].kind = "dir"
    /\ Cardinality(Subtree(fs0, LReal(fs0, Given(1)))) > 1
    /\ fs # fs0

\* The printed lines that start with CHANGE_DIR=
ChangeDirLines == {i \in 1..Len(stdout) : startsWith(stdout[i], "CHANGE_DIR=")}

\* The root is found and the target, the first path given, exists, is a
\* directory and is inside the root.
CdTargetValid ==
    /\ ~threw
    /\ Located # Null
    /\ GivenPaths # <<>>
    /\ existsSync(fs0, Given(1))
    /\ isDirectory(fs0, Given(1))
    /\ Inside(Given(1), Located)

\* C6: a change-directory run prints CHANGE_DIR=<resolved target> exactly once
\* and exits 0 when the root is found and the target is valid; every other one
\* exits nonzero; and no run of the command prints such a line otherwise.
C6_HandOffLine ==
    (cmd = "cd" /\ Done) =>
        IF Operates /\ CdTargetValid
        THEN /\ exitCode = <<0>>
             /\ Cardinality(ChangeDirLines) = 1
             /\ \A i \in ChangeDirLines : stdout[i] = "CHANGE_DIR=" \o Given(1)
        ELSE /\ ChangeDirLines = {}
             /\ Operates => exitCode # <<0>>

C6_WitnessSuccess ==
    /\ cmd = "cd" /\ Done /\ Operates /\ CdTargetValid
    /\ Given(1) # cwd
    /\ Given(1) # Located

\* A --check run that located a root has ended.
CheckRan ==
    /\ checkGiven /\ ~helpGiven /\ ~showRootGiven
    /\ Done /\ ~threw
    /\ Located # Null
    /\ Len(GivenPaths) >= 1

AllInside == \A i \in 1..Len(GivenPaths) : Inside(Given(i), Located)

\* C7 as claimed: a --check run of any of the three commands exits 0 if every
\* given path is inside the located root, and 1 if not.
C7_CheckExitCode ==
    CheckRan => exitCode = (IF AllInside THEN <<0>> ELSE <<1>>)

\* C7 as amended: rm-vs-local --check looks at every path; mv-vs-local --check
\* demands two paths; cd-vs-local --check looks at the first path alone.
C7_CheckExitCodePerCommand ==
    CheckRan =>
        exitCode = (IF CASE cmd = "rm" -> AllInside
                         [] cmd = "mv" -> Len(GivenPaths) = 2 /\ AllInside
                         [] cmd = "cd" -> Inside(Given(1), Located)
                    THEN <<0>> ELSE <<1>>)

\* rm-vs-local --check has ended on two paths of which one is outside.
C7_Witness ==
    /\ CheckRan /\ cmd = "rm"
    /\ Len(GivenPaths) = 2
    /\ Inside(Given(1), Located)
    /\ ~Inside(Given(2), Located)
    /\ exitCode = <<1>>

\* C8: a run with --check among its arguments never changes the filesystem.
C8_CheckNeverMutates ==
    checkGiven => fs = fs0 /\ ~renamed /\ attempted = <<>>

\* rm-vs-local --check with the recursive flag has ended on a directory of
\* the workspace that exists.
C8_Witness ==
    /\ cmd = "rm" /\ checkGiven /\ recursiveGiven /\ Done /\ exitCode = <<0>>
    /\ existsSync(fs0, Given(1))
    /\ isDirectory(fs0, Given(1))

\* The directories from d up to the filesystem root, both included.
ChainUp(d) ==
    {AbsOfSegs(SubSeq(Segments(d), 1, n)) : n \in 0..Len(Segments(d))}

IndicatorNames == {".vscode", ".git", "package.json"}

\* The directory holds a marker as the claim words it: a directory .vscode or
\* .git, a file package.json or a file whose name ends with .code-workspace.
HoldsTypedMarker(F, dir) ==
    \E q \in ChildrenOf(F, dir) :
        \/ basename(q) \in {".vscode", ".git"} /\ F[q].kind = "dir"
        \/ basename(q) = "package.json" /\ F[q].kind = "file"
        \/ endsWith(basename(q), ".code-workspace") /\ F[q].kind = "file"

\* The directory holds an entry of any kind with a marker's name.
HoldsMarkerName(F, dir) ==
    \E q \in ChildrenOf(F, dir) :
        \/ basename(q) \in IndicatorNames /\ Real(F, q) # NoEnt
        \/ endsWith(basename(q), ".code-workspace")

\* The locator has returned a directory.
Returned_r == cmd = "locate" /\ Done /\ ~threw /\ workspaceRoot # Null

\* C9 as claimed: the directory returned is the start or an ancestor of it,
\* holds a marker, and no directory below it on the chain holds one.
C9_NearestMarked ==
    Returned_r =>
        /\ workspaceRoot \in ChainUp(cwd)
        /\ HoldsTypedMarker(fs, workspaceRoot)
        /\ \A c \in ChainUp(cwd) :
              (c # workspaceRoot /\ Inside(c, workspaceRoot)) => ~HoldsTypedMarker(fs, c)

\* C9 as amended: the same, a marker being an entry of any kind with one of
\* the names.
C9_NearestMarkedByName ==
    Returned_r =>
        /\ workspaceRoot \in ChainUp(cwd)
        /\ HoldsMarkerName(fs, workspaceRoot)
        /\ \A c \in ChainUp(cwd) :
              (c # workspaceRoot /\ Inside(c, workspaceRoot)) => ~HoldsMarkerName(fs, c)

\* An ancestor of the start is returned while the start holds no marker.
C9_Witness ==
    /\ Returned_r
    /\ workspaceRoot # cwd
    /\ HoldsMarkerName(fs, dirname(workspaceRoot))

\* C10: the locator returns null exactly when no directory from the start up
\* to and including the filesystem root holds a marker.
C10_NullIffNoMarker ==
    (cmd = "locate" /\ Done /\ ~threw) =>
        (workspaceRoot = Null <=> \A c \in ChainUp(cwd) : ~HoldsMarkerName(fs, c))

\* A line that console.error printed starts with, or ends with, these words.
Reports(words) == \E i \in 1..Len(stderr) : startsWith(stderr[i], words)

ReportsLast(words) == \E i \in 1..Len(stderr) : endsWith(stderr[i], words)

\* The errors of the taxonomy, each known by the report the command makes of it.
RootNotFound == Reports("[x] Could not find workspace root")

TargetMissing ==
    \/ Reports("[x] Directory does not exist: ")
    \/ Reports("[x] Source does not exist: ")
    \/ Reports("[x] File does not exist: ")

ContainmentViolation == ReportsLast(" outside workspace bounds")

TypeMismatch == Reports("[x] Not a directory: ") \/ ReportsLast(" is a directory")

\* renameSync raised in the try block of mv-vs-local, or a call of the try
\* block of rm-vs-local raised.
MutationFailure == Reports("[x] Failed to move: ") \/ Reports("[x] Failed to remove ")

\* C11: a run of any of the three commands in which a root-not-found,
\* target-missing, containment-violation, type-mismatch or mutation-failure
\* error occurred ends with an exit code that is not 0.
C11_ErrorsExitNonzero ==
    (/\ Done
     /\ \/ RootNotFound \/ TargetMissing \/ ContainmentViolation
        \/ TypeMismatch \/ MutationFailure)
        => exitCode # <<0>>

ValidationPassed ==
    /\ cmd = "rm" /\ Operates
    /\ Located # Null
    /\ Len(GivenPaths) > 0
    /\ \A i \in 1..Len(GivenPaths) : ~BadTarget(i)

\* The first n targets, in the order of the arguments.
FirstTargets(n) == [i \in 1..n |-> Given(i)]

\* The reports of the mutation phase: one line on the output stream for each
\* removal that completed, one on the error stream for each that failed.
CompletedLines ==
    {i \in 1..Len(stdout) : \/ startsWith(stdout[i], "[bin]  Removed file: ")
                            \/ startsWith(stdout[i], "[idx]  Removed directory: ")}

FailedLines == {i \in 1..Len(stderr) : startsWith(stderr[i], "[x] Failed to remove ")}

\* The count of the final report, when there is one.
CountLines == {i \in 1..Len(stdout) : startsWith(stdout[i], "[ok] Removed ")}

\* C13: once every target has passed the validation, a removal is attempted
\* for each target in argument order; a removal that fails is reported and the
\* targets after it are still attempted; the count that is reported is the
\* number of targets whose removal completed without error (no count line is
\* printed when that number is 0).
C13_BestEffortPerTarget ==
    /\ (cmd = "rm" /\ pc = "remove") =>
          /\ idx - 1 <= Len(GivenPaths)
          /\ attempted = FirstTargets(idx - 1)
          /\ Cardinality(FailedLines) + Cardinality(CompletedLines) = idx - 1
          /\ removedCount = Cardinality(CompletedLines)
    /\ (Done /\ ~threw /\ ValidationPassed) =>
          /\ attempted = FirstTargets(Len(GivenPaths))
          /\ Cardinality(FailedLines) + Cardinality(CompletedLines) = Len(GivenPaths)
          /\ \A i \in CountLines :
                stdout[i] = "[ok] Removed " \o ToString(Cardinality(CompletedLines))
                               \o " item(s)"
          /\ Cardinality(CountLines) = IF CompletedLines = {} THEN 0 ELSE 1
          /\ FailedLines = {} => \A i \in 1..Len(GivenPaths) : ~existsSync(fs, Given(i))

\* A run of two targets has ended: the removal of the first failed and left it
\* on the disk, the second was removed all the same, and the count is 1.
C13_Witness ==
    /\ Done /\ ~threw /\ ValidationPassed
    /\ Len(GivenPaths) = 2
    /\ existsSync(fs, Given(1))
    /\ ~existsSync(fs, Given(2))
    /\ Cardinality(FailedLines) = 1
    /\ \E i \in 1..Len(stdout) : stdout[i] = "[ok] Removed 1 item(s)"

Next ==
    \/ CdMain
    \/ MvStart \/ MvMkdir \/ MvRename
    \/ RmStart \/ RmValidate \/ RmConfirm \/ RmRemove \/ RmReport

Spec == Init /\ [][Next]_vars

SpecLoc == InitLoc /\ [][Locate]_vars

SpecWithin == InitWithin /\ [][Within]_vars

====
